---- MODULE Spec2Model ----
(***************************************************************************)
(* A model of roadarchive/archive.py: the read facade Archive, the write   *)
(* facade ArchiveBuilder, and the zip / tar / gzip containers they drive.  *)
(*                                                                         *)
(* Strings (file names, member names) are tuples of one-character strings, *)
(* so that suffix matching, lower-casing and Path.stem are computed.       *)
(* Byte strings are tuples of integers.  Paths of source files are tuples  *)
(* of components.                                                          *)
(***************************************************************************)
EXTENDS Integers, Sequences, FiniteSets, TLC

VARIABLES path, disk, archive, builder, dest, result

vars == <<path, disk, archive, builder, dest, result>>

(***************************************************************************)
(* Bounds.                                                                 *)
(***************************************************************************)
\* longest queue of pending additions explored
MaxFiles == 2
\* longest members list handed to extract
MaxMembers == 3

(***************************************************************************)
(* Strings.                                                                *)
(***************************************************************************)
UpperChars == <<"A","B","C","D","E","F","G","H","I","J","K","L","M",
                "N","O","P","Q","R","S","T","U","V","W","X","Y","Z">>

LowerChars == <<"a","b","c","d","e","f","g","h","i","j","k","l","m",
                "n","o","p","q","r","s","t","u","v","w","x","y","z">>

\* str.lower(), one character
LowerChar(c) ==
    IF \E i \in 1..Len(UpperChars) : UpperChars[i] = c
    THEN LowerChars[CHOOSE i \in 1..Len(UpperChars) : UpperChars[i] = c]
    ELSE c

\* str.lower()
Lower(s) == [i \in 1..Len(s) |-> LowerChar(s[i])]

UpperChar(c) ==
    IF \E i \in 1..Len(LowerChars) : LowerChars[i] = c
    THEN UpperChars[CHOOSE i \in 1..Len(LowerChars) : LowerChars[i] = c]
    ELSE c

\* str.upper(), used only to enumerate file names
Upper(s) == [i \in 1..Len(s) |-> UpperChar(s[i])]

\* str.endswith(suf)
EndsWith(s, suf) ==
    /\ Len(s) >= Len(suf)
    /\ SubSeq(s, Len(s) - Len(suf) + 1, Len(s)) = suf

\* str.rstrip("/")
RECURSIVE RStripSlash(_)
RStripSlash(s) ==
    IF Len(s) > 0 /\ s[Len(s)] = "/"
    THEN RStripSlash(SubSeq(s, 1, Len(s) - 1))
    ELSE s

\* str.rfind("."), 1-based; 0 when there is no dot
RFindDot(s) ==
    IF \E i \in 1..Len(s) : s[i] = "."
    THEN CHOOSE i \in 1..Len(s) :
            s[i] = "." /\ \A j \in (i+1)..Len(s) : s[j] # "."
    ELSE 0

\* pathlib's PurePath.stem: the name without its final suffix; a leading or
\* a trailing dot starts no suffix
Stem(s) ==
    LET i == RFindDot(s)
    IN  IF i > 1 /\ i < Len(s) THEN SubSeq(s, 1, i - 1) ELSE s

\* PurePath.name of a path given as a tuple of components
PathName(p) == p[Len(p)]

(***************************************************************************)
(* ArchiveFormat and the suffixes of _detect_format.                       *)
(***************************************************************************)
ZIP == "zip"
TAR == "tar"
TAR_GZ == "tar.gz"
TAR_BZ2 == "tar.bz2"
TAR_XZ == "tar.xz"
GZIP == "gz"

ArchiveFormat == {ZIP, TAR, TAR_GZ, TAR_BZ2, TAR_XZ, GZIP}

TarFormats == {TAR, TAR_GZ, TAR_BZ2, TAR_XZ}

\* the absence of a value (format = None, no object, no file)
None == "none"

DotZip == <<".","z","i","p">>
DotTarGz == <<".","t","a","r",".","g","z">>
DotTgz == <<".","t","g","z">>
DotTarBz2 == <<".","t","a","r",".","b","z","2">>
DotTbz2 == <<".","t","b","z","2">>
DotTarXz == <<".","t","a","r",".","x","z">>
DotTxz == <<".","t","x","z">>
DotTar == <<".","t","a","r">>
DotGz == <<".","g","z">>
DotRar == <<".","r","a","r">>

\* Archive._detect_format with the plain-gzip test placed before the tar
\* tests
Archive_detect_format_gzFirst(p) ==
    LET name == Lower(p)
    IN  IF EndsWith(name, DotZip) THEN ZIP
        ELSE IF EndsWith(name, DotGz) THEN GZIP
        ELSE IF EndsWith(name, DotTarGz) \/ EndsWith(name, DotTgz) THEN TAR_GZ
        ELSE IF EndsWith(name, DotTarBz2) \/ EndsWith(name, DotTbz2) THEN TAR_BZ2
        ELSE IF EndsWith(name, DotTarXz) \/ EndsWith(name, DotTxz) THEN TAR_XZ
        ELSE IF EndsWith(name, DotTar) THEN TAR
        ELSE "ArchiveError"

\* Archive._detect_format: the format, or "ArchiveError" when it raises
Archive_detect_format(p) ==
    LET name == Lower(p)
    IN  IF EndsWith(name, DotZip) THEN ZIP
        ELSE IF EndsWith(name, DotTarGz) \/ EndsWith(name, DotTgz) THEN TAR_GZ
        ELSE IF EndsWith(name, DotTarBz2) \/ EndsWith(name, DotTbz2) THEN TAR_BZ2
        ELSE IF EndsWith(name, DotTarXz) \/ EndsWith(name, DotTxz) THEN TAR_XZ
        ELSE IF EndsWith(name, DotTar) THEN TAR
        ELSE IF EndsWith(name, DotGz) THEN GZIP
        ELSE "ArchiveError"

\* ArchiveBuilder._detect_format
Builder_detect_format(p) ==
    LET name == Lower(p)
    IN  IF EndsWith(name, DotZip) THEN ZIP
        ELSE IF EndsWith(name, DotTarGz) \/ EndsWith(name, DotTgz) THEN TAR_GZ
        ELSE IF EndsWith(name, DotTarBz2) THEN TAR_BZ2
        ELSE IF EndsWith(name, DotTarXz) THEN TAR_XZ
        ELSE IF EndsWith(name, DotTar) THEN TAR
        ELSE ZIP

(***************************************************************************)
(* Inputs.                                                                 *)
(***************************************************************************)
Stems == { <<>>, <<"a">>, <<"B">>, <<"a",".","t","a","r">>,
           <<"a",".","g","z">>, <<"a",".","z","i","p">>, <<"n","o","t","a","r">> }

LowerEndings == { <<>>, DotZip, DotTarGz, DotTgz, DotTarBz2, DotTbz2, DotTarXz,
                  DotTxz, DotTar, DotGz, DotRar, <<".","b","z","2">>,
                  <<".","x","z">>, <<".","g","z",".","b","a","k">>, <<".">> }

MixedEndings == { <<".","Z","i","p">>, <<".","t","a","r",".","G","Z">>,
                  <<".","T","a","r">>, <<".","t","B","z","2">> }

Endings == LowerEndings \cup {Upper(e) : e \in LowerEndings} \cup MixedEndings

\* every file name tried against the two detectors
FileNames == { s \o e : s \in Stems, e \in Endings }

(***************************************************************************)
(* Files on disk and the containers.  A file at the path of interest is a  *)
(* record: kind is the container/compression pairing actually written      *)
(* ("zip", "tar", "tar.gz", "tar.bz2", "tar.xz", "gz", or None when the    *)
(* file does not exist), members the stored members in order, data the     *)
(* payload of a plain gzip stream.                                         *)
(***************************************************************************)
NoFile == [kind |-> None, members |-> <<>>, data |-> <<>>]

Member(n, d, b) == [name |-> n, isdir |-> d, data |-> b]

\* zipfile.ZipFile(path, "r"): "ok" or the exception raised
ZipOpenRead(f) ==
    IF f.kind = None THEN "FileNotFoundError"
    ELSE IF f.kind = ZIP THEN "ok"
    ELSE "BadZipFile"

\* Archive._tar_mode
Archive_tar_mode(format, base) ==
    IF format = TAR_GZ THEN base \o ":gz"
    ELSE IF format = TAR_BZ2 THEN base \o ":bz2"
    ELSE IF format = TAR_XZ THEN base \o ":xz"
    ELSE base

\* tarfile.open(path, mode) for reading: mode "r" detects the compression
\* itself, the others insist on theirs
TarOpenRead(f, mode) ==
    IF f.kind = None THEN "FileNotFoundError"
    ELSE IF mode = "r" /\ f.kind \in TarFormats THEN "ok"
    ELSE IF mode = "r:gz" /\ f.kind = TAR_GZ THEN "ok"
    ELSE IF mode = "r:bz2" /\ f.kind = TAR_BZ2 THEN "ok"
    ELSE IF mode = "r:xz" /\ f.kind = TAR_XZ THEN "ok"
    ELSE "ReadError"

\* gzip.open(path, "rb") and the first read
GzipOpenRead(f) ==
    IF f.kind = None THEN "FileNotFoundError"
    ELSE IF f.kind \in {GZIP, TAR_GZ} THEN "ok"
    ELSE "BadGzipFile"

\* ZipFile.getinfo: the last member stored under the name, 0 for KeyError
ZipGetInfo(members, name) ==
    IF \E i \in 1..Len(members) : members[i].name = name
    THEN CHOOSE i \in 1..Len(members) :
            /\ members[i].name = name
            /\ \A j \in (i+1)..Len(members) : members[j].name # name
    ELSE 0

\* TarFile.getmember: the last member of that name (a trailing slash of the
\* request is dropped), 0 for KeyError
TarGetMember(members, name) ==
    LET key == RStripSlash(name)
    IN  IF \E i \in 1..Len(members) : members[i].name = key
        THEN CHOOSE i \in 1..Len(members) :
                /\ members[i].name = key
                /\ \A j \in (i+1)..Len(members) : members[j].name # key
        ELSE 0

\* dest / m as a path relative to dest
DestPath(m) == RStripSlash(m)

ArchiveEntry(m) ==
    [name |-> m.name, size |-> Len(m.data), is_dir |-> m.isdir,
     is_file |-> ~m.isdir]

Outcome(s, v, w) == [status |-> s, value |-> v, written |-> w]

(***************************************************************************)
(* Archive: list, extract, read as functions of the object and the file.   *)
(***************************************************************************)
\* Archive.list
Archive_list(a, f) ==
    IF a.format = ZIP THEN
        IF ZipOpenRead(f) = "ok"
        THEN Outcome("ok", [i \in 1..Len(f.members) |-> ArchiveEntry(f.members[i])], <<>>)
        ELSE Outcome(ZipOpenRead(f), <<>>, <<>>)
    ELSE IF a.format \in TarFormats THEN
        LET mode == Archive_tar_mode(a.format, "r")
        IN  IF TarOpenRead(f, mode) = "ok"
            THEN Outcome("ok", [i \in 1..Len(f.members) |-> ArchiveEntry(f.members[i])], <<>>)
            ELSE Outcome(TarOpenRead(f, mode), <<>>, <<>>)
    ELSE Outcome("ok", <<>>, <<>>)

\* ExtractLoop that passes over a name the container does not hold
RECURSIVE ExtractLoop_skipMissing(_, _, _, _)
ExtractLoop_skipMissing(format, fmembers, req, acc) ==
    IF req = <<>> THEN Outcome("ok", acc, acc)
    ELSE LET m == Head(req)
             idx == IF format = ZIP THEN ZipGetInfo(fmembers, m)
                    ELSE TarGetMember(fmembers, m)
         IN  IF idx = 0
             THEN ExtractLoop_skipMissing(format, fmembers, Tail(req), acc)
             ELSE ExtractLoop_skipMissing(format, fmembers, Tail(req),
                                          Append(acc, DestPath(m)))

\* the loop "for m in members: extract(m, dest); extracted.append(dest / m)"
\* with everything read already written to acc
RECURSIVE ExtractLoop(_, _, _, _)
ExtractLoop(format, fmembers, req, acc) ==
    IF req = <<>> THEN Outcome("ok", acc, acc)
    ELSE LET m == Head(req)
             idx == IF format = ZIP THEN ZipGetInfo(fmembers, m)
                    ELSE TarGetMember(fmembers, m)
         IN  IF idx = 0 THEN Outcome("KeyError", <<>>, acc)
             ELSE ExtractLoop(format, fmembers, Tail(req),
                              Append(acc, DestPath(m)))

\* ExtractAll that returns each written path once
ExtractAll_distinctPaths(fmembers) ==
    LET first == { i \in 1..Len(fmembers) :
                      \A j \in 1..(i-1) : fmembers[j].name # fmembers[i].name }
        Pick(k) == CHOOSE i \in first : Cardinality({j \in first : j <= i}) = k
        paths == [k \in 1..Cardinality(first) |-> DestPath(fmembers[Pick(k)].name)]
    IN  Outcome("ok", paths, paths)

\* extractall followed by the list of dest / name over the members
ExtractAll(fmembers) ==
    LET paths == [i \in 1..Len(fmembers) |-> DestPath(fmembers[i].name)]
    IN  Outcome("ok", paths, paths)

\* the truth value of the members argument: None and [] are both false
Truthy(members) == members.given /\ members.list # <<>>

\* Archive.extract: status, returned paths, and the paths written under dest
Archive_extract(a, f, members) ==
    IF a.format = ZIP THEN
        IF ZipOpenRead(f) # "ok" THEN Outcome(ZipOpenRead(f), <<>>, <<>>)
        ELSE IF Truthy(members) THEN ExtractLoop(ZIP, f.members, members.list, <<>>)
        ELSE ExtractAll(f.members)
    ELSE IF a.format \in TarFormats THEN
        LET mode == Archive_tar_mode(a.format, "r")
        IN  IF TarOpenRead(f, mode) # "ok" THEN Outcome(TarOpenRead(f, mode), <<>>, <<>>)
            ELSE IF Truthy(members) THEN ExtractLoop(a.format, f.members, members.list, <<>>)
            ELSE ExtractAll(f.members)
    ELSE IF a.format = GZIP THEN
        LET out_path == Stem(a.path)
        IN  IF GzipOpenRead(f) = "ok" THEN Outcome("ok", <<out_path>>, <<out_path>>)
            ELSE IF GzipOpenRead(f) = "FileNotFoundError"
                 THEN Outcome("FileNotFoundError", <<>>, <<>>)
            ELSE Outcome("BadGzipFile", <<>>, <<out_path>>)
    ELSE Outcome("ok", <<>>, <<>>)

\* Archive.read
Archive_read(a, f, name) ==
    IF a.format = ZIP THEN
        IF ZipOpenRead(f) # "ok" THEN Outcome(ZipOpenRead(f), <<>>, <<>>)
        ELSE IF ZipGetInfo(f.members, name) = 0 THEN Outcome("KeyError", <<>>, <<>>)
        ELSE Outcome("ok", f.members[ZipGetInfo(f.members, name)].data, <<>>)
    ELSE IF a.format \in TarFormats THEN
        LET mode == Archive_tar_mode(a.format, "r")
            idx == TarGetMember(f.members, name)
        IN  IF TarOpenRead(f, mode) # "ok" THEN Outcome(TarOpenRead(f, mode), <<>>, <<>>)
            ELSE IF idx = 0 THEN Outcome("KeyError", <<>>, <<>>)
            ELSE IF ~f.members[idx].isdir THEN Outcome("ok", f.members[idx].data, <<>>)
            ELSE Outcome("ArchiveError", <<>>, <<>>)
    ELSE Outcome("ArchiveError", <<>>, <<>>)

(***************************************************************************)
(* ArchiveBuilder: the queue and the container writers.                    *)
(***************************************************************************)
NoArchive == [path |-> <<>>, format |-> None]

NoBuilder == [path |-> <<>>, format |-> None, files |-> <<>>]

\* an optional argument: None, or a value
Omitted == [given |-> FALSE, val |-> <<>>]

Given(v) == [given |-> TRUE, val |-> v]

\* member names
A_TXT == <<"a",".","t","x","t">>
B_TXT == <<"b",".","t","x","t">>
F_TXT == <<"f",".","t","x","t">>
GONE_TXT == <<"g","o","n","e",".","t","x","t">>
D == <<"d">>
D_SLASH == <<"d","/">>
NOPE == <<"n","o","p","e">>

\* the source files on disk: one exists, one has vanished
F_PATH == << <<"i","n">>, F_TXT >>
GONE_PATH == << <<"i","n">>, GONE_TXT >>

SourcePaths == {F_PATH, GONE_PATH}

SourceExists(p) == p = F_PATH

SourceContent(p) == <<7, 8, 9>>

\* the in-memory payloads handed to add_bytes
Payloads == { <<>>, <<72, 105>> }

ArcNames == {A_TXT, B_TXT}

\* a queued pair (source, arcname); the source is bytes or a path
BytesEntry(data, arcname) ==
    [isbytes |-> TRUE, data |-> data, src |-> <<>>, arcname |-> arcname]

PathEntry(p, arcname) ==
    [isbytes |-> FALSE, data |-> <<>>, src |-> p, arcname |-> arcname]

\* ZipFile.writestr / ZipFile.write of one queued pair: a name ending in
\* "/" is stored with the directory attribute
ZipMember(e) ==
    Member(e.arcname, e.arcname[Len(e.arcname)] = "/",
           IF e.isbytes THEN e.data ELSE SourceContent(e.src))

\* TarFile.addfile(TarInfo(name), BytesIO) / TarFile.add of one queued pair
TarMember(e) ==
    Member(e.arcname, FALSE, IF e.isbytes THEN e.data ELSE SourceContent(e.src))

\* WriteLoop with a collision check: a pair whose arcname is already stored
\* is skipped
RECURSIVE WriteLoop_skipDuplicates(_, _, _)
WriteLoop_skipDuplicates(kind, files, acc) ==
    IF files = <<>> THEN [status |-> "ok", members |-> acc]
    ELSE LET e == Head(files)
         IN  IF ~e.isbytes /\ ~SourceExists(e.src)
             THEN [status |-> "FileNotFoundError", members |-> acc]
             ELSE IF \E i \in 1..Len(acc) : acc[i].name = e.arcname
             THEN WriteLoop_skipDuplicates(kind, Tail(files), acc)
             ELSE WriteLoop_skipDuplicates(kind, Tail(files),
                            Append(acc, IF kind = ZIP THEN ZipMember(e)
                                        ELSE TarMember(e)))

\* the loop "for src, arcname in self._files" of build, into an open
\* container of the given kind holding acc; a vanished source file raises
\* and the container is closed with what it holds
RECURSIVE WriteLoop(_, _, _)
WriteLoop(kind, files, acc) ==
    IF files = <<>> THEN [status |-> "ok", members |-> acc]
    ELSE LET e == Head(files)
         IN  IF ~e.isbytes /\ ~SourceExists(e.src)
             THEN [status |-> "FileNotFoundError", members |-> acc]
             ELSE WriteLoop(kind, Tail(files),
                            Append(acc, IF kind = ZIP THEN ZipMember(e)
                                        ELSE TarMember(e)))

\* Builder_tar_mode with the bzip2 mode also chosen for TAR_XZ
Builder_tar_mode_xzAsBz2(format) ==
    IF format = TAR_GZ THEN "w:gz"
    ELSE IF format = TAR_BZ2 \/ format = TAR_XZ THEN "w:bz2"
    ELSE "w"

\* the tarfile mode build opens the target with
Builder_tar_mode(format) ==
    IF format = TAR_GZ THEN "w:gz"
    ELSE IF format = TAR_BZ2 THEN "w:bz2"
    ELSE IF format = TAR_XZ THEN "w:xz"
    ELSE "w"

\* the pairing tarfile.open(path, mode) writes
TarKindWritten(mode) ==
    IF mode = "w:gz" THEN TAR_GZ
    ELSE IF mode = "w:bz2" THEN TAR_BZ2
    ELSE IF mode = "w:xz" THEN TAR_XZ
    ELSE TAR

\* the pairing build writes for a builder's format
Builder_kind_written(format) ==
    IF format = ZIP THEN ZIP ELSE TarKindWritten(Builder_tar_mode(format))

\* the file build leaves at the target path, and how the writing ended
Builder_write(b) ==
    LET kind == Builder_kind_written(b.format)
        w == WriteLoop(kind, b.files, <<>>)
    IN  [status |-> w.status,
         file |-> [kind |-> kind, members |-> w.members, data |-> <<>>]]

(***************************************************************************)
(* The last call and what it returned or raised.                           *)
(***************************************************************************)
NoMembers == [given |-> FALSE, list |-> <<>>]

Result(op, status, name, members, value) ==
    [op |-> op, status |-> status, name |-> name, members |-> members,
     value |-> value]

(***************************************************************************)
(* Actions.                                                                *)
(***************************************************************************)
\* Archive(path)
ArchiveInit ==
    LET fmt == Archive_detect_format(path)
    IN  /\ archive' = IF fmt = "ArchiveError" THEN archive
                      ELSE [path |-> path, format |-> fmt]
        /\ result' = Result("Archive", IF fmt = "ArchiveError" THEN fmt ELSE "ok",
                            path, NoMembers, <<>>)
        /\ UNCHANGED <<path, disk, builder, dest>>

\* ArchiveBuilder(path, format)
ArchiveBuilderInit(format) ==
    /\ builder = NoBuilder
    /\ builder' = [path |-> path,
                   format |-> IF format # None THEN format
                              ELSE Builder_detect_format(path),
                   files |-> <<>>]
    /\ result' = Result("ArchiveBuilder", "ok", path, NoMembers, <<>>)
    /\ UNCHANGED <<path, disk, archive, dest>>

\* ArchiveBuilder.add_file(p, arcname)
AddFile(p, arcname) ==
    /\ builder # NoBuilder
    /\ Len(builder.files) < MaxFiles
    /\ builder' = [builder EXCEPT !.files =
            Append(@, PathEntry(p, IF arcname.given /\ arcname.val # <<>>
                                   THEN arcname.val ELSE PathName(p)))]
    /\ result' = Result("add_file", "ok", <<>>, NoMembers, <<>>)
    /\ UNCHANGED <<path, disk, archive, dest>>

\* ArchiveBuilder.add_bytes(data, arcname)
AddBytes(data, arcname) ==
    /\ builder # NoBuilder
    /\ Len(builder.files) < MaxFiles
    /\ builder' = [builder EXCEPT !.files = Append(@, BytesEntry(data, arcname))]
    /\ result' = Result("add_bytes", "ok", <<>>, NoMembers, <<>>)
    /\ UNCHANGED <<path, disk, archive, dest>>

\* ArchiveBuilder.build
Build ==
    /\ builder # NoBuilder
    /\ LET w == Builder_write(builder)
           fmt == Archive_detect_format(builder.path)
       IN  /\ disk' = w.file
           /\ IF w.status # "ok"
              THEN /\ archive' = archive
                   /\ result' = Result("build", w.status, <<>>, NoMembers, <<>>)
              ELSE IF fmt = "ArchiveError"
              THEN /\ archive' = archive
                   /\ result' = Result("build", "ArchiveError", <<>>, NoMembers, <<>>)
              ELSE /\ archive' = [path |-> builder.path, format |-> fmt]
                   /\ result' = Result("build", "ok", <<>>, NoMembers, <<>>)
    /\ UNCHANGED <<path, builder, dest>>

\* Archive.list
List ==
    /\ archive # NoArchive
    /\ LET r == Archive_list(archive, disk)
       IN  result' = Result("list", r.status, <<>>, NoMembers, r.value)
    /\ UNCHANGED <<path, disk, archive, builder, dest>>

\* Archive.read(name)
Read(name) ==
    /\ archive # NoArchive
    /\ LET r == Archive_read(archive, disk, name)
       IN  result' = Result("read", r.status, name, NoMembers, r.value)
    /\ UNCHANGED <<path, disk, archive, builder, dest>>

\* Archive.extract(dest, members)
Extract(members) ==
    /\ archive # NoArchive
    /\ LET r == Archive_extract(archive, disk, members)
       IN  /\ result' = Result("extract", r.status, <<>>, members, r.value)
           /\ dest' = dest \cup {r.written[i] : i \in 1..Len(r.written)}
    /\ UNCHANGED <<path, disk, archive, builder>>

\* Archive.extract_file(name, dest)
ExtractFile(name) ==
    /\ archive # NoArchive
    /\ LET r == Archive_extract(archive, disk, [given |-> TRUE, list |-> <<name>>])
       IN  /\ result' = Result("extract_file", r.status, name, NoMembers,
                               IF r.status = "ok" THEN <<r.value[1]>> ELSE <<>>)
           /\ dest' = dest \cup {r.written[i] : i \in 1..Len(r.written)}
    /\ UNCHANGED <<path, disk, archive, builder>>

NoResult == Result("none", "ok", <<>>, NoMembers, <<>>)

(***************************************************************************)
(* Format detection on both sides, over every file name.                   *)
(***************************************************************************)
InitDetect ==
    /\ path \in FileNames
    /\ disk = NoFile
    /\ archive = NoArchive
    /\ builder = NoBuilder
    /\ dest = {}
    /\ result = NoResult

NextDetect ==
    \/ ArchiveInit
    \/ ArchiveBuilderInit(None)

SpecDetect == InitDetect /\ [][NextDetect]_vars

\* the name ends, whatever its case, in the suffix
HasSuffixCI(n, suf) ==
    /\ Len(n) >= Len(suf)
    /\ \A i \in 1..Len(suf) : LowerChar(n[Len(n) - Len(suf) + i]) = suf[i]

\* the format the suffix table assigns to a name, first row that matches;
\* "fail" when no row does
TableFormat(n) ==
    CASE HasSuffixCI(n, DotZip) -> ZIP
      [] HasSuffixCI(n, DotTarGz) \/ HasSuffixCI(n, DotTgz) -> TAR_GZ
      [] HasSuffixCI(n, DotTarBz2) \/ HasSuffixCI(n, DotTbz2) -> TAR_BZ2
      [] HasSuffixCI(n, DotTarXz) \/ HasSuffixCI(n, DotTxz) -> TAR_XZ
      [] HasSuffixCI(n, DotTar) -> TAR
      [] HasSuffixCI(n, DotGz)
         /\ ~(HasSuffixCI(n, DotTarGz) \/ HasSuffixCI(n, DotTgz)) -> GZIP
      [] OTHER -> "fail"

\* C1: constructing Archive over a name yields the format of the first
\* matching suffix, case-insensitively (.zip; .tar.gz/.tgz; .tar.bz2/.tbz2;
\* .tar.xz/.txz; .tar; .gz); a name matching none fails with ArchiveError and
\* produces no Archive; a name ending in .tar.gz is never GZIP.
C1_ReadDetection ==
    result.op = "Archive" =>
        /\ IF TableFormat(path) = "fail"
           THEN result.status = "ArchiveError" /\ archive = NoArchive
           ELSE /\ result.status = "ok"
                /\ archive = [path |-> path, format |-> TableFormat(path)]
        /\ HasSuffixCI(path, DotTarGz) => archive.format = TAR_GZ

\* an upper- or mixed-case .tar.gz name has been opened as TAR_GZ
C1_Witness ==
    /\ result.op = "Archive"
    /\ result.status = "ok"
    /\ HasSuffixCI(path, DotTarGz)
    /\ path # Lower(path)
    /\ archive.format = TAR_GZ

\* C2: a builder constructed without an explicit format resolves to the
\* format Archive detects for the same name when that detection succeeds,
\* and to ZIP when it fails.
C2_WriteAgreesWithRead ==
    (builder # NoBuilder /\ result.op = "Archive") =>
        IF result.status = "ok"
        THEN builder.format = archive.format
        ELSE builder.format = ZIP

(***************************************************************************)
(* One builder on one target: queueing, building, and reading back.        *)
(***************************************************************************)
TargetStems == { <<"o","u","t">> }

TargetEndings == { DotZip, DotTar, DotTarGz, DotTgz, DotTarBz2, DotTbz2,
                   DotTarXz, DotTxz, DotGz, DotRar, <<>>,
                   <<".","Z","I","P">>, <<".","T","a","r",".","G","z">> }

\* the target paths a builder is constructed on
TargetNames == { s \o e : s \in TargetStems, e \in TargetEndings }

\* the target paths a builder is also given an explicit format on
ExplicitTargets == { <<"o","u","t">> \o e : e \in {DotZip, DotTarGz, DotGz, DotRar} }

\* the names read back
ReadNames == ArcNames \cup {F_TXT, NOPE}

InitBuild ==
    /\ path \in TargetNames
    /\ disk = NoFile
    /\ archive = NoArchive
    /\ builder = NoBuilder
    /\ dest = {}
    /\ result = NoResult

NextBuild ==
    \/ ArchiveBuilderInit(None)
    \/ \E format \in ArchiveFormat :
            path \in ExplicitTargets /\ ArchiveBuilderInit(format)
    \/ \E p \in SourcePaths, arcname \in {Omitted, Given(<<>>), Given(B_TXT)} :
            AddFile(p, arcname)
    \/ \E data \in Payloads, arcname \in ArcNames : AddBytes(data, arcname)
    \/ Build
    \/ List
    \/ \E name \in ReadNames : Read(name)

SpecBuild == InitBuild /\ [][NextBuild]_vars

\* the names of stored members, and of queued pairs, in order
MemberNames(members) == [i \in 1..Len(members) |-> members[i].name]

QueuedNames(files) == [i \in 1..Len(files) |-> files[i].arcname]

IsPrefix(s, t) == Len(s) <= Len(t) /\ SubSeq(t, 1, Len(s)) = s

\* the builder's format was inferred from one of .zip, .tar, .tar.gz,
\* .tar.bz2, .tar.xz and its queue holds only in-memory payloads under
\* pairwise distinct names
PayloadsOnly ==
    /\ \E suf \in {DotZip, DotTar, DotTarGz, DotTarBz2, DotTarXz} :
            HasSuffixCI(builder.path, suf)
    /\ builder.format = TableFormat(builder.path)
    /\ \A i \in 1..Len(builder.files) : builder.files[i].isbytes
    /\ \A i, j \in 1..Len(builder.files) :
            i # j => builder.files[i].arcname # builder.files[j].arcname

\* C3: after add_bytes calls under pairwise distinct names on a .zip, .tar,
\* .tar.gz, .tar.bz2 or .tar.xz target and a build, list() on the returned
\* Archive yields one entry per payload, in the order added, with the
\* payload's name and length, and read(name_i) returns data_i.
C3_RoundTrip ==
    [][ (PayloadsOnly /\ result.op = "build" /\ result.status = "ok") =>
          /\ result'.op = "list" =>
                /\ result'.status = "ok"
                /\ Len(result'.value) = Len(builder.files)
                /\ \A i \in 1..Len(builder.files) :
                      /\ result'.value[i].name = builder.files[i].arcname
                      /\ result'.value[i].size = Len(builder.files[i].data)
          /\ \A i \in 1..Len(builder.files) :
                (result'.op = "read" /\ result'.name = builder.files[i].arcname) =>
                    /\ result'.status = "ok"
                    /\ result'.value = builder.files[i].data
      ]_vars

\* the second of two payloads has been read back from a built .tar.xz
C3_Witness ==
    /\ PayloadsOnly
    /\ HasSuffixCI(builder.path, DotTarXz)
    /\ Len(builder.files) = 2
    /\ disk.kind = TAR_XZ
    /\ Len(disk.members) = 2
    /\ result.op = "read"
    /\ result.status = "ok"
    /\ result.name = builder.files[2].arcname
    /\ result.value = <<72, 105>>

\* C4: whenever the container write succeeds, build returns an Archive
\* bound to the builder's path and raises no unrecognized-format error,
\* also for targets whose suffix matches no known pattern.
C4_BuildReturnsArchive ==
    (result.op = "build" /\ result.status # "FileNotFoundError") =>
        /\ result.status = "ok"
        /\ archive.path = builder.path

C10_WrittenFormatIsReturnedFormat ==
    (result.op = "build" /\ result.status = "ok") =>
        /\ disk.kind = builder.format
        /\ archive.format = builder.format

(***************************************************************************)
(* One Archive over an archive file found on disk: list, read, extract.    *)
(***************************************************************************)
\* members of the archives found on disk: a name stored twice and a
\* directory entry, which zip stores with a trailing slash
FoundInZip == << Member(A_TXT, FALSE, <<1>>), Member(D_SLASH, TRUE, <<>>),
                 Member(A_TXT, FALSE, <<4, 5>>) >>

FoundInTar == << Member(A_TXT, FALSE, <<1>>), Member(A_TXT, FALSE, <<4, 5>>),
                 Member(D, TRUE, <<>>) >>

Container(kind, members) == [kind |-> kind, members |-> members, data |-> <<>>]

GzipStream(data) == [kind |-> GZIP, members |-> <<>>, data |-> data]

Found(p, f) == [path |-> p, file |-> f]

\* the archive files an Archive is opened over
FoundFiles ==
    { Found(<<"a">> \o DotZip, Container(ZIP, FoundInZip)),
      Found(<<"e">> \o DotZip, Container(ZIP, <<>>)),
      Found(<<"A">> \o Upper(DotTar), Container(TAR, FoundInTar)),
      Found(<<"a">> \o DotTarGz, Container(TAR_GZ, FoundInTar)),
      Found(<<"a">> \o DotTbz2, Container(TAR_BZ2, FoundInTar)),
      Found(<<"a">> \o DotTarXz, Container(TAR_XZ, FoundInTar)),
      Found(B_TXT \o DotGz, GzipStream(<<9, 9>>)),
      Found(<<"L","O","G">> \o Upper(DotGz), GzipStream(<<>>)) }

\* the names asked for: each member under the name list() shows, a
\* directory without its slash, and a name no archive holds
RequestNames(f) == {f.members[i].name : i \in 1..Len(f.members)} \cup {D, NOPE}

RECURSIVE SeqsUpTo(_, _)
SeqsUpTo(S, n) ==
    IF n = 0 THEN {<<>>}
    ELSE LET shorter == SeqsUpTo(S, n - 1)
         IN  shorter \cup {Append(q, x) : q \in shorter, x \in S}

\* the members arguments of extract: omitted, or a list of names
MembersArgs(f) ==
    {NoMembers} \cup
    {[given |-> TRUE, list |-> q] : q \in SeqsUpTo(RequestNames(f), MaxMembers)}

InitRead ==
    /\ \E found \in FoundFiles : path = found.path /\ disk = found.file
    /\ archive = NoArchive
    /\ builder = NoBuilder
    /\ dest = {}
    /\ result = NoResult

NextRead ==
    \/ ArchiveInit
    \/ List
    \/ \E name \in RequestNames(disk) : Read(name)
    \/ \E members \in MembersArgs(disk) : Extract(members)
    \/ \E name \in RequestNames(disk) : ExtractFile(name)

SpecRead == InitRead /\ [][NextRead]_vars

\* the name is stored in the file; it is stored as a regular file
IsMemberName(f, m) == \E i \in 1..Len(f.members) : f.members[i].name = m

IsRegularMember(f, m) ==
    \E i \in 1..Len(f.members) : f.members[i].name = m /\ ~f.members[i].isdir

\* C5: read(name) returns the bytes of a regular-file member of a zip or
\* tar archive, and in every other case (no such member, a directory
\* entry, plain gzip) raises ArchiveError and nothing else.
C5_ReadBytesOrArchiveError ==
    result.op = "read" =>
        IF archive.format # GZIP /\ IsRegularMember(disk, result.name)
        THEN /\ result.status = "ok"
             /\ \E i \in 1..Len(disk.members) :
                    /\ disk.members[i].name = result.name
                    /\ disk.members[i].data = result.value
        ELSE result.status = "ArchiveError"

\* p is the name without its final suffix
IsNameMinusFinalSuffix(p, name) ==
    \E suf \in {SubSeq(name, k, Len(name)) : k \in 2..Len(name)} :
        /\ name = p \o suf
        /\ suf[1] = "."
        /\ Len(suf) >= 2
        /\ \A i \in 2..Len(suf) : suf[i] # "."

\* C6: extract without members returns as many paths as list() returns
\* entries when the archive is zip or a tar variant, directory entries and
\* repeated names counted, and exactly one path, dest joined with the base
\* name minus its final suffix, when it is plain gzip.
C6_ExtractAllCount ==
    (result.op = "extract" /\ ~result.members.given) =>
        /\ result.status = "ok"
        /\ IF archive.format = GZIP
           THEN /\ Len(result.value) = 1
                /\ IsNameMinusFinalSuffix(result.value[1], archive.path)
           ELSE /\ Archive_list(archive, disk).status = "ok"
                /\ Len(result.value) = Len(Archive_list(archive, disk).value)

\* everything has been extracted from a zip holding a repeated name and a
\* directory entry
C6_Witness ==
    /\ result.op = "extract"
    /\ ~result.members.given
    /\ archive.format = ZIP
    /\ \E i, j \in 1..Len(disk.members) :
            i # j /\ disk.members[i].name = disk.members[j].name
    /\ \E i \in 1..Len(disk.members) : disk.members[i].isdir
    /\ Len(result.value) = 3
    /\ Cardinality(dest) = 2

\* the position of the first requested name the file does not hold, 0 when
\* it holds them all
FirstMissing(f, req) ==
    IF \E i \in 1..Len(req) : ~IsMemberName(f, req[i])
    THEN CHOOSE i \in 1..Len(req) :
            /\ ~IsMemberName(f, req[i])
            /\ \A j \in 1..(i-1) : IsMemberName(f, req[j])
    ELSE 0

\* C7: extract of a members list whose first missing name is m_N fails at
\* m_N and returns nothing; m_1..m_(N-1) are under dest, nothing is written
\* for m_N or a later name, and the archive file is unchanged; extract_file
\* of a missing name writes nothing.
C7_ExtractFailsAtFirstMissing ==
    [][ /\ ( /\ result'.op = "extract"
             /\ archive.format # GZIP
             /\ result'.members.given
             /\ FirstMissing(disk, result'.members.list) > 0 ) =>
              LET req == result'.members.list
                  N == FirstMissing(disk, req)
              IN  /\ result'.status = "KeyError"
                  /\ result'.value = <<>>
                  /\ dest' = dest \cup {DestPath(req[i]) : i \in 1..(N-1)}
                  /\ disk' = disk
        /\ ( /\ result'.op = "extract_file"
             /\ archive.format # GZIP
             /\ ~IsMemberName(disk, result'.name) ) =>
              /\ result'.status = "KeyError"
              /\ result'.value = <<>>
              /\ dest' = dest
              /\ disk' = disk
      ]_vars

\* an extract of three names has failed at the third, leaving the first two
\* and nothing else under dest
C7_Witness ==
    /\ result.op = "extract"
    /\ result.status = "KeyError"
    /\ archive.format \in TarFormats
    /\ Len(result.members.list) = 3
    /\ FirstMissing(disk, result.members.list) = 3
    /\ result.members.list[1] # result.members.list[2]
    /\ dest = {DestPath(result.members.list[1]), DestPath(result.members.list[2])}

\* C8: whenever a members list is given to extract on a zip or tar archive,
\* the empty list included, the returned paths are dest/m for each m of the
\* list, in order, and nothing else is extracted.
C8_OnlyNamedExtracted ==
    ( /\ result.op = "extract"
      /\ result.status = "ok"
      /\ archive.format # GZIP
      /\ result.members.given ) =>
        result.value = [i \in 1..Len(result.members.list) |->
                            DestPath(result.members.list[i])]

====
